---- MODULE Spec2Model ----
(***************************************************************************)
(* ProjectGraph (src/src/core/graph.rs): a petgraph Graph<Node,            *)
(* DependencyType, Directed> plus the identifier -> NodeIndex map, with    *)
(* the operations add_node, connect_nodes (is_valid_connection,            *)
(* try_connect), get_node and get_dependencies.                            *)
(*                                                                         *)
(* The petgraph adjacency-list graph is modelled as it is stored: a        *)
(* vector of nodes and a vector of edges, each node holding the heads of   *)
(* its outgoing and incoming edge lists, each edge the next edge of both   *)
(* lists.  Indices are 1-based; End (0) is EdgeIndex::end().  In a pair    *)
(* <<x, y>> position 1 is petgraph's direction Outgoing (Rust index 0)     *)
(* and position 2 is Incoming (Rust index 1).                              *)
(***************************************************************************)
EXTENDS Integers, Sequences, FiniteSets, TLC

\* ---------------------------------------------------------------- bounds
MaxId == 3          \* identifiers are 1..MaxId
MaxEdges == 2       \* committed edges kept in the graph
MaxStored == 2      \* vertices the caller of SpecOwner inserts

\* ----------------------------------------------------------- vertex model
Kinds == {"Project", "Spec", "Epic", "UserStory", "Tasks"}
DependencyType == {"Blocks", "ResourcesRequiredFor", "Contains"}
Ids == 1 .. MaxId

\* A vertex value: the variant and the identifier (the fields the graph reads).
Node == [kind : Kinds, id : Ids]

get_id(node) == node.id

\* ------------------------------------------------------- result values
Ok == "Ok"
ErrDuplicate == "The node has already been inserted into the graph"
ErrInvalid == "Invalid connection between the two nodes"
ErrUnknown == "One or more of the nodes does not exist in the graph"
ErrCycle == "Connection would create a cycle"
ErrPanic == "Bug: node existence was already verified"
\* Option<T>: None is the empty sequence, Some(x) the sequence of x alone.
None == << >>
Some(x) == <<x>>

\* ------------------------------------------------------------- petgraph
End == 0

Graph_new == [nodes |-> << >>, edges |-> << >>]

\* Graph::add_node: push a node with two empty edge lists.
graph_add_node(g, weight) ==
    [g EXCEPT !.nodes = Append(@, [weight |-> weight, next |-> <<End, End>>])]

\* Graph::add_edge: the new edge becomes the head of a's outgoing list and
\* of b's incoming list, and is pushed at the end of the edge vector.
graph_add_edge(g, a, b, weight) ==
    LET edge_idx == Len(g.edges) + 1
        an == g.nodes[a]
        bn == g.nodes[b]
        edge == IF a = b
                THEN [weight |-> weight, node |-> <<a, b>>, next |-> an.next]
                ELSE [weight |-> weight, node |-> <<a, b>>,
                      next |-> <<an.next[1], bn.next[2]>>]
        nodes1 == IF a = b
                  THEN [g.nodes EXCEPT ![a].next = <<edge_idx, edge_idx>>]
                  ELSE [g.nodes EXCEPT ![a].next = <<edge_idx, an.next[2]>>,
                                       ![b].next = <<bn.next[1], edge_idx>>]
    IN  [nodes |-> nodes1, edges |-> Append(g.edges, edge)]

\* Graph::find_edge (directed): walk a's outgoing list from its head and
\* return the first edge whose target is b, or End.
RECURSIVE find_edge_directed_from_node(_, _, _)
find_edge_directed_from_node(g, edix, b) ==
    IF edix = End THEN End
    ELSE IF g.edges[edix].node[2] = b THEN edix
    ELSE find_edge_directed_from_node(g, g.edges[edix].next[1], b)

find_edge(g, a, b) ==
    IF a \in 1 .. Len(g.nodes)
    THEN find_edge_directed_from_node(g, g.nodes[a].next[1], b)
    ELSE End

\* Graph::change_edge_links: in the outgoing list of edge_node[1] and in the
\* incoming list of edge_node[2], the link that points to e is redirected
\* to edge_next.
change_edge_links(g, edge_node, e, edge_next) ==
    LET relink(k, owner, cur) ==
            IF owner = edge_node[k] /\ cur = e THEN edge_next[k] ELSE cur
    IN  [nodes |-> [i \in 1 .. Len(g.nodes) |->
                      [g.nodes[i] EXCEPT !.next =
                          <<relink(1, i, g.nodes[i].next[1]),
                            relink(2, i, g.nodes[i].next[2])>>]],
         edges |-> [c \in 1 .. Len(g.edges) |->
                      [g.edges[c] EXCEPT !.next =
                          <<relink(1, g.edges[c].node[1], g.edges[c].next[1]),
                            relink(2, g.edges[c].node[2], g.edges[c].next[2])>>]]]

\* Graph::remove_edge_adjust_indices: swap_remove(e), then the edge that was
\* last (if it moved) is re-linked under its new index e.
remove_edge_adjust_indices(g, e) ==
    LET last == Len(g.edges)
        edges1 == [c \in 1 .. (last - 1) |->
                      IF c = e THEN g.edges[last] ELSE g.edges[c]]
        g1 == [nodes |-> g.nodes, edges |-> edges1]
    IN  IF e = last THEN g1
        ELSE change_edge_links(g1, edges1[e].node, last, <<e, e>>)

\* Graph::remove_edge
graph_remove_edge(g, e) ==
    IF e \notin 1 .. Len(g.edges) THEN g
    ELSE remove_edge_adjust_indices(
             change_edge_links(g, g.edges[e].node, e, g.edges[e].next), e)

\* Graph::edges(a): the outgoing edges of a in adjacency-list order.
RECURSIVE edges_walk(_, _)

edges_walk(g, edix) ==
    IF edix = End THEN << >>
    ELSE <<edix>> \o edges_walk(g, g.edges[edix].next[1])

graph_edges(g, a) == edges_walk(g, g.nodes[a].next[1])

\* petgraph::visit::depth_first_search with the visitor of is_cyclic_directed:
\* st.back is set at the first BackEdge event (an edge to a vertex that is
\* discovered and not finished), which stops the search.
RECURSIVE dfs_visitor(_, _, _)
RECURSIVE dfs_neighbors(_, _, _)
dfs_visitor(g, u, st) ==
    IF u \in st.discovered THEN st
    ELSE LET st1 == [st EXCEPT !.discovered = @ \cup {u}]
             st2 == dfs_neighbors(g, g.nodes[u].next[1], st1)
         IN  IF st2.back THEN st2
             ELSE [st2 EXCEPT !.finished = @ \cup {u}]

dfs_neighbors(g, edix, st) ==
    IF edix = End \/ st.back THEN st
    ELSE LET v == g.edges[edix].node[2]
             st1 == IF v \notin st.discovered THEN dfs_visitor(g, v, st)
                    ELSE IF v \notin st.finished THEN [st EXCEPT !.back = TRUE]
                    ELSE st
         IN  dfs_neighbors(g, g.edges[edix].next[1], st1)

RECURSIVE depth_first_search(_, _, _)
depth_first_search(g, start, st) ==
    IF start > Len(g.nodes) \/ st.back THEN st
    ELSE depth_first_search(g, start + 1, dfs_visitor(g, start, st))

is_cyclic_directed(g) ==
    depth_first_search(g, 1,
        [discovered |-> {}, finished |-> {}, back |-> FALSE]).back

\* ------------------------------------------------------------------ Node
\* The values the attributes are drawn from.  Timeline is opaque here.
Names == {"a", "b"}
Links == {"l"}
Owners == {"o"}
Timelines == {"t1", "t2"}
Points == {0, 5}
People == {"p", "q"}
Participants == SUBSET People

Option(T) == {None} \cup {Some(x) : x \in T}

\* enum Node, variant by variant, each with the fields it carries.
NodeValues ==
    [kind : {"Project"}, id : Ids, name : Names, link : Option(Links),
     timeline : Option(Timelines), owner : Option(Owners),
     participants : Option(Participants)]
    \cup
    [kind : {"Spec"}, id : Ids, name : Names, link : Option(Links),
     owner : Option(Owners)]
    \cup
    [kind : {"Epic"}, id : Ids, name : Names, link : Option(Links),
     timeline : Timelines, points : Option(Points), owner : Option(Owners),
     participants : Option(Participants)]
    \cup
    [kind : {"UserStory", "Tasks"}, id : Ids, name : Names,
     link : Option(Links), timeline : Timelines, points : Option(Points),
     owner : Option(Owners)]

Unit == "()"
ErrParticipantsUnsupported == "This node type does not support participants"
ErrParticipantMissing == "participant does not exist"
ErrParticipantsEmpty == "Participants for this node are empty"
ErrPointsUnsupported == "This node type does not contain points"

get_name(node) == node.name

set_id(node, uid) == [node EXCEPT !.id = uid]

set_name(node, new_name) == [node EXCEPT !.name = new_name]

set_link(node, new_link) == [node EXCEPT !.link = Some(new_link)]

\* Variant: a Project keeps the timeline it already has.
set_timeline_keep_present(node, new_timeline) ==
    CASE node.kind = "Project" ->
             IF node.timeline = None
             THEN [node EXCEPT !.timeline = Some(new_timeline)]
             ELSE node
      [] node.kind = "Spec" -> node
      [] node.kind \in {"Epic", "UserStory", "Tasks"} ->
             [node EXCEPT !.timeline = new_timeline]

set_timeline(node, new_timeline) ==
    CASE node.kind = "Project" -> [node EXCEPT !.timeline = Some(new_timeline)]
      [] node.kind = "Spec" -> node
      [] node.kind \in {"Epic", "UserStory", "Tasks"} ->
             [node EXCEPT !.timeline = new_timeline]

set_owner(node, new_owner) == [node EXCEPT !.owner = Some(new_owner)]

\* Variant: the set is replaced by the new participant alone.
add_participant_replacing(node, participant) ==
    IF node.kind \in {"Project", "Epic"}
    THEN [node |-> [node EXCEPT !.participants = Some({participant})],
          ret |-> Ok]
    ELSE [node |-> node, ret |-> ErrParticipantsUnsupported]

\* get_or_insert_with(HashSet::new).insert(participant)
add_participant(node, participant) ==
    IF node.kind \in {"Project", "Epic"}
    THEN [node |-> [node EXCEPT !.participants =
                       Some((IF @ = None THEN {} ELSE @[1]) \cup {participant})],
          ret |-> Ok]
    ELSE [node |-> node, ret |-> ErrParticipantsUnsupported]

\* Variant: removing a name the set lacks is reported as success.
remove_participant_lenient(node, participant) ==
    IF node.kind \in {"Project", "Epic"}
    THEN IF node.participants # None
         THEN [node |-> [node EXCEPT !.participants = Some(@[1] \ {participant})],
               ret |-> Ok]
         ELSE [node |-> node, ret |-> ErrParticipantsEmpty]
    ELSE [node |-> node, ret |-> ErrParticipantsUnsupported]

remove_participant(node, participant) ==
    IF node.kind \in {"Project", "Epic"}
    THEN IF node.participants # None
         THEN IF participant \in node.participants[1]
              THEN [node |-> [node EXCEPT !.participants =
                                 Some(@[1] \ {participant})],
                    ret |-> Ok]
              ELSE [node |-> node, ret |-> ErrParticipantMissing]
         ELSE [node |-> node, ret |-> ErrParticipantsEmpty]
    ELSE [node |-> node, ret |-> ErrParticipantsUnsupported]

\* Variant: an Epic is treated as a vertex without points.
set_points_no_epic(node, new_points) ==
    IF node.kind \in {"UserStory", "Tasks"}
    THEN [node |-> [node EXCEPT !.points = Some(new_points)], ret |-> Ok]
    ELSE [node |-> node, ret |-> ErrPointsUnsupported]

set_points(node, new_points) ==
    IF node.kind \in {"Epic", "UserStory", "Tasks"}
    THEN [node |-> [node EXCEPT !.points = Some(new_points)], ret |-> Ok]
    ELSE [node |-> node, ret |-> ErrPointsUnsupported]

\* ----------------------------------------------------------- NodeBuilder
\* The messages of the build_* methods, one per missing required field.
ErrProjectId == "Failed to build project - missing project id"
ErrProjectName == "Failed to build project - missing project name"
ErrSpecId == "Failed to build Spec - missing Spec id"
ErrSpecName == "Failed to build Spec - missing Spec name"
ErrEpicId == "Failed to build Epic - missing Epic id"
ErrEpicName == "Failed to build Epic - missing Epic name"
ErrEpicTimeline == "Failed to build Epic - missing Epic timeline"
ErrUserStoryId == "Failed to build Userstory - missing Userstory id"
ErrUserStoryName == "Failed to build Userstory - missing Userstory name"
ErrUserStoryTimeline == "Failed to build Userstory - missing Userstory timeline"
ErrTasksId == "Failed to build Tasks - missing Tasks id"
ErrTasksName == "Failed to build Tasks - missing Tasks name"
ErrTasksTimeline == "Failed to build Tasks - missing Tasks timeline"

\* NodeBuilder::default(): every field None.
NodeBuilder_new ==
    [id |-> None, name |-> None, link |-> None, timeline |-> None,
     owner |-> None, points |-> None, participants |-> None]

with_id(self, id) == [self EXCEPT !.id = Some(id)]

with_name(self, name) == [self EXCEPT !.name = Some(name)]

with_link(self, link) == [self EXCEPT !.link = Some(link)]

with_timeline(self, tl) == [self EXCEPT !.timeline = Some(tl)]

with_owner(self, owner) == [self EXCEPT !.owner = Some(owner)]

with_points(self, points) == [self EXCEPT !.points = Some(points)]

with_participants(self, participants) ==
    [self EXCEPT !.participants = Some(participants)]

\* What a build_* method returns: Ok with the vertex, or the message alone.
Built(node) == [ret |-> Ok, node |-> Some(node)]
Failed(msg) == [ret |-> msg, node |-> None]

build_project(self) ==
    IF self.id = None THEN Failed(ErrProjectId)
    ELSE IF self.name = None THEN Failed(ErrProjectName)
    ELSE Built([kind |-> "Project", id |-> self.id[1], name |-> self.name[1],
                link |-> self.link, timeline |-> self.timeline, owner |-> self.owner,
                participants |-> self.participants])

build_spec(self) ==
    IF self.id = None THEN Failed(ErrSpecId)
    ELSE IF self.name = None THEN Failed(ErrSpecName)
    ELSE Built([kind |-> "Spec", id |-> self.id[1], name |-> self.name[1],
                link |-> self.link, owner |-> self.owner])

build_epic(self) ==
    IF self.id = None THEN Failed(ErrEpicId)
    ELSE IF self.name = None THEN Failed(ErrEpicName)
    ELSE IF self.timeline = None THEN Failed(ErrEpicTimeline)
    ELSE Built([kind |-> "Epic", id |-> self.id[1], name |-> self.name[1],
                link |-> self.link, timeline |-> self.timeline[1], points |-> self.points,
                owner |-> self.owner, participants |-> self.participants])

build_userstory(self) ==
    IF self.id = None THEN Failed(ErrUserStoryId)
    ELSE IF self.name = None THEN Failed(ErrUserStoryName)
    ELSE IF self.timeline = None THEN Failed(ErrUserStoryTimeline)
    ELSE Built([kind |-> "UserStory", id |-> self.id[1], name |-> self.name[1],
                link |-> self.link, timeline |-> self.timeline[1], points |-> self.points,
                owner |-> self.owner])

\* Variant: the Tasks vertex is built without the points supplied.
build_tasks_no_points(self) ==
    IF self.id = None THEN Failed(ErrTasksId)
    ELSE IF self.name = None THEN Failed(ErrTasksName)
    ELSE IF self.timeline = None THEN Failed(ErrTasksTimeline)
    ELSE Built([kind |-> "Tasks", id |-> self.id[1], name |-> self.name[1],
                link |-> self.link, timeline |-> self.timeline[1], points |-> None,
                owner |-> self.owner])

build_tasks(self) ==
    IF self.id = None THEN Failed(ErrTasksId)
    ELSE IF self.name = None THEN Failed(ErrTasksName)
    ELSE IF self.timeline = None THEN Failed(ErrTasksTimeline)
    ELSE Built([kind |-> "Tasks", id |-> self.id[1], name |-> self.name[1],
                link |-> self.link, timeline |-> self.timeline[1], points |-> self.points,
                owner |-> self.owner])

\* --------------------------------------------------------- ProjectGraph
VARIABLES
    graph,          \* ProjectGraph.graph
    uid_to_index,   \* ProjectGraph.uid_to_index
    ret,            \* what the last call returned
    call,           \* the arguments of the call under test (SpecPolicy)
    committed,      \* history: the edges of the connect_nodes calls that returned Ok
    vertex,         \* the caller's own Node value, if it holds one
    builder         \* the caller's NodeBuilder, if it holds one

vars == <<graph, uid_to_index, ret, call, committed, vertex, builder>>

\* The receiver of a method call: the two fields of the struct.
Self == [graph |-> graph, uid_to_index |-> uid_to_index]

ProjectGraph_new == [graph |-> Graph_new, uid_to_index |-> << >>]

\* Variant: the UserStory/Epic Blocks arm is written the other way round.
is_valid_connection_flipped(from, to, dep_type) ==
    LET m == <<from.kind, to.kind, dep_type>>
    IN  m \in { <<"Spec", "Spec", "Contains">>, <<"Spec", "Project", "Contains">>,
                <<"Project", "Project", "Contains">>, <<"Project", "Epic", "Contains">>,
                <<"Project", "UserStory", "Contains">>,
                <<"Epic", "UserStory", "Contains">>, <<"UserStory", "Tasks", "Contains">>,
                <<"Project", "Project", "Blocks">>, <<"Epic", "Epic", "Blocks">>,
                <<"UserStory", "UserStory", "Blocks">>, <<"Tasks", "Tasks", "Blocks">>,
                <<"Epic", "UserStory", "Blocks">>,
                <<"Project", "Project", "ResourcesRequiredFor">>,
                <<"Epic", "Epic", "ResourcesRequiredFor">>,
                <<"UserStory", "UserStory", "ResourcesRequiredFor">>,
                <<"Tasks", "Tasks", "ResourcesRequiredFor">>,
                <<"Tasks", "UserStory", "ResourcesRequiredFor">> }

\* The match of is_valid_connection, arm by arm; the last arm is `_ => false`.
is_valid_connection(from, to, dep_type) ==
    LET m == <<from.kind, to.kind, dep_type>>
    IN  CASE m = <<"Spec", "Spec", "Contains">> -> TRUE
          [] m = <<"Spec", "Project", "Contains">> -> TRUE
          [] m = <<"Project", "Project", "Contains">> -> TRUE
          [] m = <<"Project", "Epic", "Contains">> -> TRUE
          [] m = <<"Project", "UserStory", "Contains">> -> TRUE
          [] m = <<"Epic", "UserStory", "Contains">> -> TRUE
          [] m = <<"UserStory", "Tasks", "Contains">> -> TRUE
          [] m = <<"Project", "Project", "Blocks">> -> TRUE
          [] m = <<"Epic", "Epic", "Blocks">> -> TRUE
          [] m = <<"UserStory", "UserStory", "Blocks">> -> TRUE
          [] m = <<"Tasks", "Tasks", "Blocks">> -> TRUE
          [] m = <<"UserStory", "Epic", "Blocks">> -> TRUE
          [] m = <<"Project", "Project", "ResourcesRequiredFor">> -> TRUE
          [] m = <<"Epic", "Epic", "ResourcesRequiredFor">> -> TRUE
          [] m = <<"UserStory", "UserStory", "ResourcesRequiredFor">> -> TRUE
          [] m = <<"Tasks", "Tasks", "ResourcesRequiredFor">> -> TRUE
          [] m = <<"Tasks", "UserStory", "ResourcesRequiredFor">> -> TRUE
          [] OTHER -> FALSE

\* Variant: the tentative edge is left in place when a cycle is found.
try_connect_no_rollback(self, node1, node2, dep_type) ==
    LET from_idx == self.uid_to_index[get_id(node1)]
        to_idx == self.uid_to_index[get_id(node2)]
        g1 == graph_add_edge(self.graph, from_idx, to_idx, dep_type)
    IN  [self |-> [self EXCEPT !.graph = g1],
         ret |-> IF is_cyclic_directed(g1) THEN ErrCycle ELSE Ok]

\* Variant: an edge is added only when none joins the pair yet.
try_connect_no_parallel(self, node1, node2, dep_type) ==
    LET from_idx == self.uid_to_index[get_id(node1)]
        to_idx == self.uid_to_index[get_id(node2)]
        g1 == graph_add_edge(self.graph, from_idx, to_idx, dep_type)
    IN  IF find_edge(self.graph, from_idx, to_idx) # End
        THEN [self |-> self, ret |-> Ok]
        ELSE IF is_cyclic_directed(g1)
        THEN [self |-> [self EXCEPT !.graph =
                           graph_remove_edge(g1, find_edge(g1, from_idx, to_idx))],
              ret |-> ErrCycle]
        ELSE [self |-> [self EXCEPT !.graph = g1], ret |-> Ok]

\* Variant: the rollback removes the oldest edge of the graph.
try_connect_remove_oldest(self, node1, node2, dep_type) ==
    LET from_idx == self.uid_to_index[get_id(node1)]
        to_idx == self.uid_to_index[get_id(node2)]
        g1 == graph_add_edge(self.graph, from_idx, to_idx, dep_type)
    IN  IF is_cyclic_directed(g1)
        THEN [self |-> [self EXCEPT !.graph = graph_remove_edge(g1, 1)],
              ret |-> ErrCycle]
        ELSE [self |-> [self EXCEPT !.graph = g1], ret |-> Ok]

\* Variant: the rollback looks the edge up from to_idx to from_idx.
try_connect_swapped_lookup(self, node1, node2, dep_type) ==
    LET from_idx == self.uid_to_index[get_id(node1)]
        to_idx == self.uid_to_index[get_id(node2)]
        g1 == graph_add_edge(self.graph, from_idx, to_idx, dep_type)
        edge_idx == find_edge(g1, to_idx, from_idx)
    IN  IF is_cyclic_directed(g1)
        THEN [self |-> [self EXCEPT !.graph =
                           IF edge_idx # End THEN graph_remove_edge(g1, edge_idx)
                           ELSE g1],
              ret |-> ErrCycle]
        ELSE [self |-> [self EXCEPT !.graph = g1], ret |-> Ok]

\* Variant: the cycle scan runs before the edge is added.
try_connect_check_first(self, node1, node2, dep_type) ==
    LET from_idx == self.uid_to_index[get_id(node1)]
        to_idx == self.uid_to_index[get_id(node2)]
    IN  IF is_cyclic_directed(self.graph)
        THEN [self |-> self, ret |-> ErrCycle]
        ELSE [self |-> [self EXCEPT !.graph =
                           graph_add_edge(self.graph, from_idx, to_idx, dep_type)],
              ret |-> Ok]

\* try_connect: look both identifiers up, add the edge, scan the whole graph
\* for a cycle, and on a cycle remove the first edge found from from_idx to
\* to_idx.  Returns the receiver after the call and the Result.
try_connect(self, node1, node2, dep_type) ==
    LET u1 == get_id(node1)
        u2 == get_id(node2)
    IN  IF u1 \notin DOMAIN self.uid_to_index \/ u2 \notin DOMAIN self.uid_to_index
        THEN [self |-> self, ret |-> ErrPanic]
        ELSE LET from_idx == self.uid_to_index[u1]
                 to_idx == self.uid_to_index[u2]
                 g1 == graph_add_edge(self.graph, from_idx, to_idx, dep_type)
             IN  IF is_cyclic_directed(g1)
                 THEN LET edge_idx == find_edge(g1, from_idx, to_idx)
                          g2 == IF edge_idx # End
                                THEN graph_remove_edge(g1, edge_idx)
                                ELSE g1
                      IN  [self |-> [self EXCEPT !.graph = g2], ret |-> ErrCycle]
                 ELSE [self |-> [self EXCEPT !.graph = g1], ret |-> Ok]

\* Variant: no duplicate check; the index entry is overwritten.
add_node_unchecked(self, node) ==
    LET g1 == graph_add_node(self.graph, node)
    IN  [self |-> [graph |-> g1,
                   uid_to_index |->
                       [k \in DOMAIN self.uid_to_index \cup {get_id(node)} |->
                           IF k = get_id(node) THEN Len(g1.nodes)
                           ELSE self.uid_to_index[k]]],
         ret |-> Ok]

\* Variant: a duplicate identifier is reported and the stored vertex is
\* overwritten with the value passed in.
add_node_replacing(self, node) ==
    IF get_id(node) \in DOMAIN self.uid_to_index
    THEN [self |-> [self EXCEPT !.graph.nodes[self.uid_to_index[get_id(node)]].weight = node],
          ret |-> ErrDuplicate]
    ELSE [self |-> [graph |-> graph_add_node(self.graph, node),
                    uid_to_index |->
                        [k \in DOMAIN self.uid_to_index \cup {get_id(node)} |->
                            IF k = get_id(node) THEN Len(self.graph.nodes) + 1
                            ELSE self.uid_to_index[k]]],
          ret |-> Ok]

\* Variant: the position recorded is the vertex count before the push.
add_node_stale_index(self, node) ==
    IF get_id(node) \in DOMAIN self.uid_to_index
    THEN [self |-> self, ret |-> ErrDuplicate]
    ELSE [self |-> [graph |-> graph_add_node(self.graph, node),
                    uid_to_index |->
                        [k \in DOMAIN self.uid_to_index \cup {get_id(node)} |->
                            IF k = get_id(node) THEN Len(self.graph.nodes)
                            ELSE self.uid_to_index[k]]],
          ret |-> Ok]

\* add_node: reject an identifier that is already a key of the map, else
\* store a clone of the vertex and record identifier -> position.
add_node(self, node) ==
    LET node_id == get_id(node)
    IN  IF \E k \in DOMAIN self.uid_to_index : k = node_id
        THEN [self |-> self, ret |-> ErrDuplicate]
        ELSE LET g1 == graph_add_node(self.graph, node)
                 node_idx == Len(g1.nodes)
             IN  [self |-> [graph |-> g1,
                            uid_to_index |->
                                [k \in DOMAIN self.uid_to_index \cup {node_id} |->
                                    IF k = node_id THEN node_idx
                                    ELSE self.uid_to_index[k]]],
                  ret |-> Ok]

\* Variant: the existence check runs before the policy check.
connect_nodes_exists_first(self, node1, node2, dep_type) ==
    IF get_id(node1) \notin DOMAIN self.uid_to_index
       \/ get_id(node2) \notin DOMAIN self.uid_to_index
    THEN [self |-> self, ret |-> ErrUnknown]
    ELSE IF ~is_valid_connection(node1, node2, dep_type)
    THEN [self |-> self, ret |-> ErrInvalid]
    ELSE try_connect(self, node1, node2, dep_type)

\* Variant: the existence check fails only when both identifiers are absent.
connect_nodes_both_absent(self, node1, node2, dep_type) ==
    IF ~is_valid_connection(node1, node2, dep_type)
    THEN [self |-> self, ret |-> ErrInvalid]
    ELSE IF get_id(node1) \notin DOMAIN self.uid_to_index
            /\ get_id(node2) \notin DOMAIN self.uid_to_index
    THEN [self |-> self, ret |-> ErrUnknown]
    ELSE try_connect(self, node1, node2, dep_type)

\* connect_nodes: the policy check on the two vertex values passed in, then
\* the existence check on their identifiers, then try_connect.
connect_nodes(self, node1, node2, dep_type) ==
    LET u1 == get_id(node1)
        u2 == get_id(node2)
    IN  IF ~is_valid_connection(node1, node2, dep_type)
        THEN [self |-> self, ret |-> ErrInvalid]
        ELSE IF u1 \notin DOMAIN self.uid_to_index \/ u2 \notin DOMAIN self.uid_to_index
        THEN [self |-> self, ret |-> ErrUnknown]
        ELSE try_connect(self, node1, node2, dep_type)

\* get_node: Option<&Node>
get_node(self, id) ==
    IF id \in DOMAIN self.uid_to_index
       /\ self.uid_to_index[id] \in 1 .. Len(self.graph.nodes)
    THEN Some(self.graph.nodes[self.uid_to_index[id]].weight)
    ELSE None

\* Variant: each entry carries the identifier of the edge's source.
get_dependencies_source(self, uuid) ==
    IF uuid \in DOMAIN self.uid_to_index
    THEN LET es == graph_edges(self.graph, self.uid_to_index[uuid])
         IN  Some([i \in 1 .. Len(es) |->
                 <<get_id(self.graph.nodes[self.graph.edges[es[i]].node[1]].weight),
                   self.graph.edges[es[i]].weight>>])
    ELSE None

\* get_dependencies: Option<Vec<(Uuid, DependencyType)>>
get_dependencies(self, uuid) ==
    IF uuid \in DOMAIN self.uid_to_index
    THEN LET es == graph_edges(self.graph, self.uid_to_index[uuid])
         IN  Some([i \in 1 .. Len(es) |->
                 <<get_id(self.graph.nodes[self.graph.edges[es[i]].node[2]].weight),
                   self.graph.edges[es[i]].weight>>])
    ELSE None

\* ---------------------------------------------------------------- actions
\* The vertex values the caller holds in the main specification: a Project
\* and a UserStory that share identifier 1, an Epic under identifier 2 and
\* an Epic under identifier 3.  add_node and connect_nodes draw their
\* arguments from them; any further identifier is never inserted and is an
\* unknown identifier for the queries.
KindsOf(id) ==
    IF id = 1 THEN {"Project", "UserStory"}
    ELSE IF id \in {2, 3} THEN {"Epic"}
    ELSE {}

Vertices == {node \in Node : node.kind \in KindsOf(node.id)}

\* ret is what the last call returned: the operation, its identifier
\* argument for the two queries, and the value.
Returned(op, arg, val) == [op |-> op, arg |-> arg, val |-> val]

NoCall == [node1 |-> None, node2 |-> None, dep_type |-> None]

Init ==
    /\ graph = ProjectGraph_new.graph
    /\ uid_to_index = ProjectGraph_new.uid_to_index
    /\ ret = Returned("new", 0, Ok)
    /\ call = NoCall
    /\ committed = << >>
    /\ vertex = None
    /\ builder = None

AddNode(node) ==
    \E r \in {add_node(Self, node)} :
        /\ graph' = r.self.graph
        /\ uid_to_index' = r.self.uid_to_index
        /\ ret' = Returned("add_node", 0, r.ret)
        /\ UNCHANGED <<call, committed, vertex, builder>>

ConnectNodes(node1, node2, dep_type) ==
    \E r \in {connect_nodes(Self, node1, node2, dep_type)} :
        /\ Len(r.self.graph.edges) <= MaxEdges
        /\ graph' = r.self.graph
        /\ uid_to_index' = r.self.uid_to_index
        /\ ret' = Returned("connect_nodes", 0, r.ret)
        /\ committed' = IF r.ret = Ok
                        THEN Append(committed, <<get_id(node1), get_id(node2), dep_type>>)
                        ELSE committed
        /\ UNCHANGED <<call, vertex, builder>>

GetNode(id) ==
    /\ ret' = Returned("get_node", id, get_node(Self, id))
    /\ UNCHANGED <<graph, uid_to_index, call, committed, vertex, builder>>

GetDependencies(uuid) ==
    /\ ret' = Returned("get_dependencies", uuid, get_dependencies(Self, uuid))
    /\ UNCHANGED <<graph, uid_to_index, call, committed, vertex, builder>>

Next ==
    \/ \E node \in Vertices : AddNode(node)
    \/ \E node1, node2 \in Vertices, dep_type \in DependencyType :
           ConnectNodes(node1, node2, dep_type)
    \/ \E id \in Ids : GetNode(id)
    \/ \E uuid \in Ids : GetDependencies(uuid)

Spec == Init /\ [][Next]_vars

\* ------------------------------------------- the policy, call by call
\* SpecPolicy applies one call, with vertex values of every variant under
\* every identifier and every dependency type, to a graph in one of the
\* states below, each built with add_node and connect_nodes.
VertexOf(kind, id) == [kind |-> kind, id |-> id]

Built0 == ProjectGraph_new
Built1 == add_node(Built0, VertexOf("Project", 1)).self
Built2 == add_node(Built1, VertexOf("Epic", 2)).self
Built3 == connect_nodes(Built2, VertexOf("Project", 1), VertexOf("Epic", 2),
                        "Contains").self
Built4 == add_node(Built3, VertexOf("UserStory", 3)).self
Built5 == connect_nodes(Built4, VertexOf("Epic", 2), VertexOf("UserStory", 3),
                        "Contains").self

BuiltGraphs == {Built0, Built1, Built2, Built3, Built4, Built5}

Calls == [node1 : Node, node2 : Node, dep_type : DependencyType]

InitPolicy ==
    /\ \E built \in BuiltGraphs :
           /\ graph = built.graph
           /\ uid_to_index = built.uid_to_index
    /\ call \in Calls
    /\ ret = Returned("new", 0, Ok)
    /\ committed = [e \in 1 .. Len(graph.edges) |->
                       <<graph.nodes[graph.edges[e].node[1]].weight.id,
                         graph.nodes[graph.edges[e].node[2]].weight.id,
                         graph.edges[e].weight>>]
    /\ vertex = None
    /\ builder = None

\* The policy lookup alone, on the vertex values of the call.
PolicyLookup ==
    /\ ret.op = "new"
    /\ ret' = Returned("is_valid_connection", 0,
                       is_valid_connection(call.node1, call.node2, call.dep_type))
    /\ UNCHANGED <<graph, uid_to_index, call, committed, vertex, builder>>

\* The call itself.
PolicyConnect ==
    /\ ret.op = "new"
    /\ ConnectNodes(call.node1, call.node2, call.dep_type)

NextPolicy == PolicyLookup \/ PolicyConnect

SpecPolicy == InitPolicy /\ [][NextPolicy]_vars

\* ------------------------------------------- the caller's vertex value
\* The mutators of Node, applied to the value the caller holds.
SetId(uid) ==
    /\ vertex # None
    /\ vertex' = Some(set_id(vertex[1], uid))
    /\ ret' = Returned("set_id", uid, Unit)
    /\ UNCHANGED <<graph, uid_to_index, call, committed, builder>>

SetName(new_name) ==
    /\ vertex # None
    /\ vertex' = Some(set_name(vertex[1], new_name))
    /\ ret' = Returned("set_name", new_name, Unit)
    /\ UNCHANGED <<graph, uid_to_index, call, committed, builder>>

SetLink(new_link) ==
    /\ vertex # None
    /\ vertex' = Some(set_link(vertex[1], new_link))
    /\ ret' = Returned("set_link", new_link, Unit)
    /\ UNCHANGED <<graph, uid_to_index, call, committed, builder>>

SetTimeline(new_timeline) ==
    /\ vertex # None
    /\ vertex' = Some(set_timeline(vertex[1], new_timeline))
    /\ ret' = Returned("set_timeline", new_timeline, Unit)
    /\ UNCHANGED <<graph, uid_to_index, call, committed, builder>>

SetOwner(new_owner) ==
    /\ vertex # None
    /\ vertex' = Some(set_owner(vertex[1], new_owner))
    /\ ret' = Returned("set_owner", new_owner, Unit)
    /\ UNCHANGED <<graph, uid_to_index, call, committed, builder>>

AddParticipant(participant) ==
    /\ vertex # None
    /\ \E r \in {add_participant(vertex[1], participant)} :
           /\ vertex' = Some(r.node)
           /\ ret' = Returned("add_participant", participant, r.ret)
    /\ UNCHANGED <<graph, uid_to_index, call, committed, builder>>

RemoveParticipant(participant) ==
    /\ vertex # None
    /\ \E r \in {remove_participant(vertex[1], participant)} :
           /\ vertex' = Some(r.node)
           /\ ret' = Returned("remove_participant", participant, r.ret)
    /\ UNCHANGED <<graph, uid_to_index, call, committed, builder>>

SetPoints(new_points) ==
    /\ vertex # None
    /\ \E r \in {set_points(vertex[1], new_points)} :
           /\ vertex' = Some(r.node)
           /\ ret' = Returned("set_points", new_points, r.ret)
    /\ UNCHANGED <<graph, uid_to_index, call, committed, builder>>

\* The caller holds any vertex value; the graph is not involved.
InitNode ==
    /\ graph = ProjectGraph_new.graph
    /\ uid_to_index = ProjectGraph_new.uid_to_index
    /\ ret = Returned("new", 0, Ok)
    /\ call = NoCall
    /\ committed = << >>
    /\ vertex \in {Some(node) : node \in NodeValues}
    /\ builder = None

NextNode ==
    \/ \E uid \in Ids : SetId(uid)
    \/ \E new_name \in Names : SetName(new_name)
    \/ \E new_link \in Links : SetLink(new_link)
    \/ \E new_timeline \in Timelines : SetTimeline(new_timeline)
    \/ \E new_owner \in Owners : SetOwner(new_owner)
    \/ \E participant \in People : AddParticipant(participant)
    \/ \E participant \in People : RemoveParticipant(participant)
    \/ \E new_points \in Points : SetPoints(new_points)

SpecNode == InitNode /\ [][NextNode]_vars

\* ------------------------------- the caller's value and the stored one
\* The vertex the caller starts from, as build_epic and build_project make
\* it from an id, a name and a timeline.
OwnerVertices ==
    { [kind |-> "Epic", id |-> 1, name |-> "a", link |-> None,
       timeline |-> "t1", points |-> None, owner |-> None,
       participants |-> None],
      [kind |-> "Project", id |-> 1, name |-> "a", link |-> None,
       timeline |-> Some("t1"), owner |-> None, participants |-> None] }

InitOwner ==
    /\ graph = ProjectGraph_new.graph
    /\ uid_to_index = ProjectGraph_new.uid_to_index
    /\ ret = Returned("new", 0, Ok)
    /\ call = NoCall
    /\ committed = << >>
    /\ vertex \in {Some(node) : node \in OwnerVertices}
    /\ builder = None

\* add_node(&vertex): the graph stores a clone of the caller's value.
OwnerAddNode ==
    /\ vertex # None
    /\ AddNode(vertex[1])
    /\ Len(graph'.nodes) <= MaxStored

NextOwner ==
    \/ OwnerAddNode
    \/ \E uid \in Ids : SetId(uid)
    \/ \E new_name \in Names : SetName(new_name)
    \/ \E new_points \in Points : SetPoints(new_points)
    \/ \E id \in Ids : GetNode(id)

SpecOwner == InitOwner /\ [][NextOwner]_vars

\* ------------------------------------------------- the caller's builder
\* The with_* methods take the builder by value and hand it back.
WithId(id) ==
    /\ builder # None
    /\ builder' = Some(with_id(builder[1], id))
    /\ ret' = Returned("with_id", id, Unit)
    /\ UNCHANGED <<graph, uid_to_index, call, committed, vertex>>

WithName(name) ==
    /\ builder # None
    /\ builder' = Some(with_name(builder[1], name))
    /\ ret' = Returned("with_name", name, Unit)
    /\ UNCHANGED <<graph, uid_to_index, call, committed, vertex>>

WithLink(link) ==
    /\ builder # None
    /\ builder' = Some(with_link(builder[1], link))
    /\ ret' = Returned("with_link", link, Unit)
    /\ UNCHANGED <<graph, uid_to_index, call, committed, vertex>>

WithTimeline(tl) ==
    /\ builder # None
    /\ builder' = Some(with_timeline(builder[1], tl))
    /\ ret' = Returned("with_timeline", tl, Unit)
    /\ UNCHANGED <<graph, uid_to_index, call, committed, vertex>>

WithOwner(owner) ==
    /\ builder # None
    /\ builder' = Some(with_owner(builder[1], owner))
    /\ ret' = Returned("with_owner", owner, Unit)
    /\ UNCHANGED <<graph, uid_to_index, call, committed, vertex>>

WithPoints(points) ==
    /\ builder # None
    /\ builder' = Some(with_points(builder[1], points))
    /\ ret' = Returned("with_points", points, Unit)
    /\ UNCHANGED <<graph, uid_to_index, call, committed, vertex>>

WithParticipants(participants) ==
    /\ builder # None
    /\ builder' = Some(with_participants(builder[1], participants))
    /\ ret' = Returned("with_participants", participants, Unit)
    /\ UNCHANGED <<graph, uid_to_index, call, committed, vertex>>

\* A build_* method consumes the builder; the caller is left with the vertex
\* or with the error.  ret.arg keeps the builder that was consumed.
BuildProject ==
    /\ builder # None
    /\ \E r \in {build_project(builder[1])} :
           /\ vertex' = r.node
           /\ ret' = Returned("build_project", builder[1], r.ret)
    /\ builder' = None
    /\ UNCHANGED <<graph, uid_to_index, call, committed>>

BuildSpec ==
    /\ builder # None
    /\ \E r \in {build_spec(builder[1])} :
           /\ vertex' = r.node
           /\ ret' = Returned("build_spec", builder[1], r.ret)
    /\ builder' = None
    /\ UNCHANGED <<graph, uid_to_index, call, committed>>

BuildEpic ==
    /\ builder # None
    /\ \E r \in {build_epic(builder[1])} :
           /\ vertex' = r.node
           /\ ret' = Returned("build_epic", builder[1], r.ret)
    /\ builder' = None
    /\ UNCHANGED <<graph, uid_to_index, call, committed>>

BuildUserStory ==
    /\ builder # None
    /\ \E r \in {build_userstory(builder[1])} :
           /\ vertex' = r.node
           /\ ret' = Returned("build_userstory", builder[1], r.ret)
    /\ builder' = None
    /\ UNCHANGED <<graph, uid_to_index, call, committed>>

BuildTasks ==
    /\ builder # None
    /\ \E r \in {build_tasks(builder[1])} :
           /\ vertex' = r.node
           /\ ret' = Returned("build_tasks", builder[1], r.ret)
    /\ builder' = None
    /\ UNCHANGED <<graph, uid_to_index, call, committed>>

\* The caller holds the builder NodeBuilder::new() returns.
InitBuilder ==
    /\ graph = ProjectGraph_new.graph
    /\ uid_to_index = ProjectGraph_new.uid_to_index
    /\ ret = Returned("new", 0, Ok)
    /\ call = NoCall
    /\ committed = << >>
    /\ vertex = None
    /\ builder = Some(NodeBuilder_new)

NextBuilder ==
    \/ \E id \in Ids : WithId(id)
    \/ \E name \in Names : WithName(name)
    \/ \E link \in Links : WithLink(link)
    \/ \E tl \in Timelines : WithTimeline(tl)
    \/ \E owner \in Owners : WithOwner(owner)
    \/ \E points \in Points : WithPoints(points)
    \/ \E participants \in Participants : WithParticipants(participants)
    \/ BuildProject
    \/ BuildSpec
    \/ BuildEpic
    \/ BuildUserStory
    \/ BuildTasks

SpecBuilder == InitBuilder /\ [][NextBuilder]_vars

\* ------------------------------------------------------------ properties
\* The table of the Compatibility Policy as the specification lists it.
PolicyTable ==
    { <<"Spec", "Spec", "Contains">>, <<"Spec", "Project", "Contains">>,
      <<"Project", "Project", "Contains">>, <<"Project", "Epic", "Contains">>,
      <<"Project", "UserStory", "Contains">>, <<"Epic", "UserStory", "Contains">>,
      <<"UserStory", "Tasks", "Contains">>,
      <<"Project", "Project", "Blocks">>, <<"Epic", "Epic", "Blocks">>,
      <<"UserStory", "UserStory", "Blocks">>, <<"Tasks", "Tasks", "Blocks">>,
      <<"UserStory", "Epic", "Blocks">>,
      <<"Project", "Project", "ResourcesRequiredFor">>,
      <<"Epic", "Epic", "ResourcesRequiredFor">>,
      <<"UserStory", "UserStory", "ResourcesRequiredFor">>,
      <<"Tasks", "Tasks", "ResourcesRequiredFor">>,
      <<"Tasks", "UserStory", "ResourcesRequiredFor">> }

\* The edges of g as (source position, target position) pairs, whatever
\* their dependency type.
Arcs(g) == {<<g.edges[e].node[1], g.edges[e].node[2]>> : e \in 1 .. Len(g.edges)}

\* b is reached from a along at least one and at most n arcs of R.
RECURSIVE Reaches(_, _, _, _)
Reaches(R, a, b, n) ==
    /\ n >= 1
    /\ \/ <<a, b>> \in R
       \/ \E arc \in R : arc[1] = a /\ Reaches(R, arc[2], b, n - 1)

HasCycle(g) ==
    \E n \in 1 .. Len(g.nodes) : Reaches(Arcs(g), n, n, Len(g.nodes))

\* The stored vertices' identifiers.
StoredIds(g) == {g.nodes[i].weight.id : i \in 1 .. Len(g.nodes)}

\* The (source identifier, target identifier, type) triple of edge e.
EdgeTriple(g, e) ==
    <<g.nodes[g.edges[e].node[1]].weight.id,
      g.nodes[g.edges[e].node[2]].weight.id,
      g.edges[e].weight>>

\* C1: between calls the graph has no directed cycle, over the edges of all
\* dependency types together, a self-loop counting as a cycle.
C1_Acyclic == ~HasCycle(graph)

\* A call was rejected for closing a cycle through two committed edges.
C1_Witness ==
    /\ ret.op = "connect_nodes"
    /\ ret.val = ErrCycle
    /\ Len(graph.edges) >= 2
    /\ Len(graph.nodes) = 3

\* C2: a connect_nodes call that returns the cycle error leaves the graph as
\* it was: the same vertices, the same edges in the same lists, the same
\* index, and the same get_dependencies list for every identifier.
C2_AtomicRollback ==
    [][(ret'.op = "connect_nodes" /\ ret'.val = ErrCycle) =>
          /\ graph' = graph
          /\ uid_to_index' = uid_to_index
          /\ \A id \in Ids : get_dependencies(Self', id) = get_dependencies(Self, id)
      ]_vars

\* The cycle error was returned with committed edges in the graph.
C2_Witness ==
    /\ ret.op = "connect_nodes"
    /\ ret.val = ErrCycle
    /\ Len(graph.edges) = MaxEdges

\* C3: add_node fails with the duplicate error exactly when a vertex with the
\* same identifier is stored, and then changes nothing; no two stored
\* vertices share an identifier.
C3_IdentifierUniqueness ==
    /\ \A node \in Node :
           LET r == add_node(Self, node)
               present == node.id \in StoredIds(graph)
           IN  /\ r.ret \in {Ok, ErrDuplicate}
               /\ (r.ret = ErrDuplicate) <=> present
               /\ present => r.self = Self
               /\ ~present => /\ Len(r.self.graph.nodes) = Len(graph.nodes) + 1
                              /\ get_node(r.self, node.id) = Some(node)
    /\ \A i, j \in 1 .. Len(graph.nodes) :
           graph.nodes[i].weight.id = graph.nodes[j].weight.id => i = j

\* A duplicate insertion was rejected and the vertex stored first is kept.
C3_Witness ==
    /\ ret.op = "add_node"
    /\ ret.val = ErrDuplicate
    /\ get_node(Self, 1) = Some([kind |-> "UserStory", id |-> 1])

\* C4: every edge joins stored vertices whose variants, with the edge's
\* type, are a triple of the policy table.
C4_TypeRespectingEdges ==
    \A e \in 1 .. Len(graph.edges) :
        <<graph.nodes[graph.edges[e].node[1]].weight.kind,
          graph.nodes[graph.edges[e].node[2]].weight.kind,
          graph.edges[e].weight>> \in PolicyTable

\* The triple of variants and type of the call under test.
CallTriple == <<call.node1.kind, call.node2.kind, call.dep_type>>

CallIdsIndexed ==
    /\ call.node1.id \in DOMAIN uid_to_index
    /\ call.node2.id \in DOMAIN uid_to_index

\* C5: a call whose triple is not in the policy table fails with the invalid
\* relationship error and changes nothing, whether or not its identifiers
\* are in the graph and whether or not its edge would close a cycle.
C5_InvalidRelationship ==
    [][(ret'.op = "connect_nodes" /\ CallTriple \notin PolicyTable) =>
          /\ ret'.val = ErrInvalid
          /\ UNCHANGED <<graph, uid_to_index>>
      ]_vars

\* A triple outside the table was rejected although an identifier of the
\* call is not in the graph.
C5_Witness ==
    /\ ret.op = "connect_nodes"
    /\ ret.val = ErrInvalid
    /\ CallTriple \notin PolicyTable
    /\ ~CallIdsIndexed
    /\ Len(graph.edges) = 1

\* C6: a call whose triple is in the table and whose source or target
\* identifier is not in the index fails with the unknown vertex error and
\* changes nothing.
C6_UnknownVertex ==
    [][(ret'.op = "connect_nodes" /\ CallTriple \in PolicyTable /\ ~CallIdsIndexed) =>
          /\ ret'.val = ErrUnknown
          /\ UNCHANGED <<graph, uid_to_index>>
      ]_vars

\* The unknown vertex error was returned with exactly one of the two
\* identifiers in the graph.
C6_Witness ==
    /\ ret.op = "connect_nodes"
    /\ ret.val = ErrUnknown
    /\ call.node1.id \in DOMAIN uid_to_index
    /\ call.node2.id \notin DOMAIN uid_to_index
    /\ Len(graph.edges) = 1

\* C7: with a triple of the table and both identifiers in the graph, the
\* call fails with the cycle error exactly when source and target are the
\* same vertex or the target already reaches the source; otherwise it
\* returns Ok and appends exactly one edge from source to target with the
\* given type.  No edge of the graph joins a vertex to itself.
C7_CycleIsReachability ==
    /\ \A node1, node2 \in Vertices, dep_type \in DependencyType :
           (/\ <<node1.kind, node2.kind, dep_type>> \in PolicyTable
            /\ node1.id \in StoredIds(graph)
            /\ node2.id \in StoredIds(graph)) =>
           LET r == connect_nodes(Self, node1, node2, dep_type)
               a == CHOOSE i \in 1 .. Len(graph.nodes) : graph.nodes[i].weight.id = node1.id
               b == CHOOSE i \in 1 .. Len(graph.nodes) : graph.nodes[i].weight.id = node2.id
               closes == a = b \/ Reaches(Arcs(graph), b, a, Len(graph.nodes))
           IN  /\ (r.ret = ErrCycle) <=> closes
               /\ ~closes =>
                     /\ r.ret = Ok
                     /\ r.self.graph.nodes =
                           graph_add_edge(graph, a, b, dep_type).nodes
                     /\ Len(r.self.graph.edges) = Len(graph.edges) + 1
                     /\ \A e \in 1 .. Len(graph.edges) :
                            /\ r.self.graph.edges[e].node = graph.edges[e].node
                            /\ r.self.graph.edges[e].weight = graph.edges[e].weight
                     /\ EdgeTriple(r.self.graph, Len(graph.edges) + 1) =
                           <<node1.id, node2.id, dep_type>>
    /\ \A arc \in Arcs(graph) : arc[1] # arc[2]

\* The cycle error was returned for an edge closing a path of two edges.
C7_Witness ==
    /\ ret.op = "connect_nodes"
    /\ ret.val = ErrCycle
    /\ Arcs(graph) = {<<1, 2>>, <<2, 3>>}

\* C8: is_valid_connection is true exactly on the 17 triples of the table,
\* whatever the identifiers of the two vertices and the state of the graph.
C8_PolicyTable ==
    /\ Cardinality(PolicyTable) = 17
    /\ ret.op = "is_valid_connection" => (ret.val <=> CallTriple \in PolicyTable)

\* The lookup answered false for a triple outside the table, on a graph
\* that holds both vertices of the call.
C8_Witness ==
    /\ ret.op = "is_valid_connection"
    /\ ret.val = FALSE
    /\ CallTriple = <<"Epic", "UserStory", "Blocks">>
    /\ CallIdsIndexed

\* How many entries of the sequence seq equal x.
Count(seq, x) == Cardinality({i \in 1 .. Len(seq) : seq[i] = x})

\* C9: get_dependencies returns nothing exactly for an identifier that is
\* not in the graph; otherwise its entries are, with multiplicity, the
\* (target, type) pairs of the committed edges whose source is the identifier.
C9_Dependencies ==
    \A id \in Ids :
        LET deps == get_dependencies(Self, id)
        IN  /\ (deps = None) <=> id \notin StoredIds(graph)
            /\ deps # None =>
                  /\ Len(deps[1]) = Cardinality({i \in 1 .. Len(committed) :
                                                    committed[i][1] = id})
                  /\ \A target \in Ids, dep_type \in DependencyType :
                         Count(deps[1], <<target, dep_type>>) =
                             Count(committed, <<id, target, dep_type>>)

\* get_dependencies returned one entry while another vertex is the source of
\* the second committed edge.
C9_Witness ==
    /\ ret.op = "get_dependencies"
    /\ ret.val # None
    /\ Len(ret.val[1]) = 1
    /\ Len(committed) = 2

\* C11: over every call the stored vertices stay where they are and the
\* edges already in the graph stay, with their endpoints and types; every
\* committed edge is in the graph, also after a later call that failed and
\* was rolled back.
C11_MonotonicLifecycle ==
    [][/\ Len(graph'.nodes) >= Len(graph.nodes)
       /\ \A i \in 1 .. Len(graph.nodes) :
              graph'.nodes[i].weight = graph.nodes[i].weight
       /\ DOMAIN uid_to_index \subseteq DOMAIN uid_to_index'
       /\ Len(graph'.edges) >= Len(graph.edges)
       /\ \A e \in 1 .. Len(graph.edges) :
              EdgeTriple(graph', e) = EdgeTriple(graph, e)
       /\ \A i \in 1 .. Len(committed') :
              \E e \in 1 .. Len(graph'.edges) :
                  EdgeTriple(graph', e) = committed'[i]
      ]_vars

\* A call was rolled back with two committed edges and three vertices stored.
C11_Witness ==
    /\ ret.op = "connect_nodes"
    /\ ret.val = ErrCycle
    /\ Len(committed) = 2
    /\ Len(graph.edges) = 2
    /\ Len(graph.nodes) = 3

\* How many entries of the dependency list deps have the target identifier.
CountTarget(deps, target) ==
    Cardinality({i \in 1 .. Len(deps) : deps[i][1] = target})

\* C12: once an edge joins a to b, a further call from a to b with a triple
\* of the table returns Ok and adds one more entry with target b to
\* get_dependencies(a); the entries with target b are as many as the
\* successful calls from a to b.
C12_ParallelEdges ==
    /\ \A node1, node2 \in Vertices, dep_type \in DependencyType :
           (/\ <<node1.kind, node2.kind, dep_type>> \in PolicyTable
            /\ \E i \in 1 .. Len(committed) :
                   committed[i][1] = node1.id /\ committed[i][2] = node2.id) =>
           \A r \in {connect_nodes(Self, node1, node2, dep_type)} :
               /\ r.ret = Ok
               /\ Len(r.self.graph.edges) = Len(graph.edges) + 1
               /\ CountTarget(get_dependencies(r.self, node1.id)[1], node2.id) =
                     CountTarget(get_dependencies(Self, node1.id)[1], node2.id) + 1
    /\ \A a \in StoredIds(graph), b \in Ids :
           CountTarget(get_dependencies(Self, a)[1], b) =
               Cardinality({i \in 1 .. Len(committed) :
                               committed[i][1] = a /\ committed[i][2] = b})

\* Two calls from one vertex to another with the same type both returned Ok.
C12_Witness ==
    /\ ret.op = "connect_nodes"
    /\ ret.val = Ok
    /\ Len(committed) = 2
    /\ committed[1] = committed[2]
    /\ Len(get_dependencies(Self, committed[1][1])[1]) = 2

\* C19: the identifier index and the vertex store are in one-to-one
\* correspondence: the indexed identifiers are the stored ones, each maps to
\* the position of the vertex carrying it, and no two share a position.
C19_IndexBijection ==
    /\ DOMAIN uid_to_index = StoredIds(graph)
    /\ Cardinality(DOMAIN uid_to_index) = Len(graph.nodes)
    /\ \A id \in DOMAIN uid_to_index :
           /\ uid_to_index[id] \in 1 .. Len(graph.nodes)
           /\ get_id(graph.nodes[uid_to_index[id]].weight) = id
    /\ \A id1, id2 \in DOMAIN uid_to_index :
           uid_to_index[id1] = uid_to_index[id2] => id1 = id2
    /\ \A i \in 1 .. Len(graph.nodes) :
           uid_to_index[get_id(graph.nodes[i].weight)] = i

\* Three vertices are indexed and the last call, a duplicate insertion,
\* failed.
C19_Witness ==
    /\ ret.op = "add_node"
    /\ ret.val = ErrDuplicate
    /\ Cardinality(DOMAIN uid_to_index) = 3
    /\ Len(graph.edges) = 1

\* The (source identifier, target identifier, type) triples of the edges of
\* g, in the order of the edge vector.
EdgeTriples(g) == [e \in 1 .. Len(g.edges) |-> EdgeTriple(g, e)]

\* C20: when the tentative edge from a to b closes a cycle, no edge from a
\* to b was there before, the lookup from a to b finds the tentative edge,
\* and the call leaves the committed edges in their order with their types.
C20_RollbackRemovesTentative ==
    \A node1, node2 \in Vertices, dep_type \in DependencyType :
        (/\ <<node1.kind, node2.kind, dep_type>> \in PolicyTable
         /\ get_id(node1) \in DOMAIN uid_to_index
         /\ get_id(node2) \in DOMAIN uid_to_index) =>
        LET from_idx == uid_to_index[get_id(node1)]
            to_idx == uid_to_index[get_id(node2)]
        IN  \A g1 \in {graph_add_edge(graph, from_idx, to_idx, dep_type)} :
                is_cyclic_directed(g1) =>
                    /\ find_edge(graph, from_idx, to_idx) = End
                    /\ find_edge(g1, from_idx, to_idx) = Len(g1.edges)
                    /\ \A r \in {connect_nodes(Self, node1, node2, dep_type)} :
                           /\ r.ret = ErrCycle
                           /\ EdgeTriples(r.self.graph) = EdgeTriples(graph)
                           /\ r.self.graph.edges = graph.edges

\* A call was rolled back and the two committed edges, of different types,
\* are in the graph in the order they were committed.
C20_Witness ==
    /\ ret.op = "connect_nodes"
    /\ ret.val = ErrCycle
    /\ Len(committed) = 2
    /\ committed[1][3] # committed[2][3]
    /\ EdgeTriples(graph) = committed

\* C14: add_participant returns Ok exactly on a Project or an Epic, and then
\* the participant set is present and holds the name and every participant
\* held before, nothing else of the vertex changing; on a Spec, a UserStory
\* or a Tasks it returns the unsupported-participants error and the vertex is
\* unchanged.
C14_AddParticipant ==
    [][ret'.op = "add_participant" =>
          IF vertex[1].kind \in {"Project", "Epic"}
          THEN /\ ret'.val = Ok
               /\ vertex'[1].participants # None
               /\ ret'.arg \in vertex'[1].participants[1]
               /\ vertex[1].participants # None =>
                      vertex[1].participants[1] \subseteq vertex'[1].participants[1]
               /\ vertex'[1] =
                      [vertex[1] EXCEPT !.participants = vertex'[1].participants]
          ELSE /\ ret'.val = ErrParticipantsUnsupported
               /\ vertex' = vertex
      ]_vars

\* A second participant was added to an Epic that held one.
C14_Witness ==
    /\ ret.op = "add_participant"
    /\ ret.val = Ok
    /\ vertex[1].kind = "Epic"
    /\ vertex[1].participants = Some(People)

\* C15: remove_participant on a Project or an Epic returns Ok exactly when
\* the participant set is present and holds the name, and then only that
\* name leaves the set; when the set is absent or lacks the name it returns
\* an error of the not-found kind and the vertex is unchanged; on a Spec, a
\* UserStory or a Tasks it returns the unsupported-participants error.
C15_RemoveParticipant ==
    [][ret'.op = "remove_participant" =>
          IF vertex[1].kind \in {"Project", "Epic"}
          THEN IF /\ vertex[1].participants # None
                  /\ ret'.arg \in vertex[1].participants[1]
               THEN /\ ret'.val = Ok
                    /\ vertex'[1] =
                           [vertex[1] EXCEPT !.participants =
                               Some(vertex[1].participants[1] \ {ret'.arg})]
               ELSE /\ ret'.val \in {ErrParticipantMissing, ErrParticipantsEmpty}
                    /\ vertex' = vertex
          ELSE /\ ret'.val = ErrParticipantsUnsupported
               /\ vertex' = vertex
      ]_vars

\* A name was removed from a Project and the other participant is still
\* there.
C15_Witness ==
    /\ ret.op = "remove_participant"
    /\ ret.val = Ok
    /\ vertex[1].kind = "Project"
    /\ vertex[1].participants = Some(People \ {ret.arg})

\* C16: set_points returns Ok exactly on an Epic, a UserStory or a Tasks,
\* and then points is the number given and every other field is unchanged;
\* on a Project or a Spec it returns the no-points error and the vertex is
\* unchanged.
C16_SetPoints ==
    [][ret'.op = "set_points" =>
          IF vertex[1].kind \in {"Epic", "UserStory", "Tasks"}
          THEN /\ ret'.val = Ok
               /\ vertex'[1].points = Some(ret'.arg)
               /\ vertex'[1] = [vertex[1] EXCEPT !.points = vertex'[1].points]
          ELSE /\ ret'.val = ErrPointsUnsupported
               /\ vertex' = vertex
      ]_vars

\* The points of an Epic were set to 5.
C16_Witness ==
    /\ ret.op = "set_points"
    /\ ret.val = Ok
    /\ vertex[1].kind = "Epic"
    /\ vertex[1].points = Some(5)

\* C17: set_timeline returns no error; a Project then has the timeline
\* present with the value given, an Epic, a UserStory or a Tasks has its
\* timeline replaced by it, a Spec is unchanged; no other field changes.
C17_SetTimeline ==
    [][ret'.op = "set_timeline" =>
          /\ ret'.val = Unit
          /\ CASE vertex[1].kind = "Project" ->
                      /\ vertex'[1].timeline = Some(ret'.arg)
                      /\ vertex'[1] =
                             [vertex[1] EXCEPT !.timeline = vertex'[1].timeline]
               [] vertex[1].kind = "Spec" -> vertex' = vertex
               [] OTHER ->
                      /\ vertex'[1].timeline = ret'.arg
                      /\ vertex'[1] =
                             [vertex[1] EXCEPT !.timeline = vertex'[1].timeline]
      ]_vars

\* A Project with an empty participant set holds the timeline given.
C17_Witness ==
    /\ ret.op = "set_timeline"
    /\ ret.arg = "t2"
    /\ vertex[1].kind = "Project"
    /\ vertex[1].timeline = Some("t2")
    /\ vertex[1].participants = Some({})

\* C13: a successful add_node stores the caller's vertex as it is at that
\* moment under its identifier, and from then on get_node of that identifier
\* returns that same vertex, with that identifier, over every call: the
\* mutators the caller applies to its own value and further insertions
\* change no stored vertex.
C13_StoredVertexImmutable ==
    [][/\ \A i \in DOMAIN uid_to_index :
              /\ get_node(Self', i) = get_node(Self, i)
              /\ get_node(Self', i) # None
              /\ get_id(get_node(Self', i)[1]) = i
       /\ (ret'.op = "add_node" /\ ret'.val = Ok) =>
              get_node(Self', get_id(vertex[1])) = Some(vertex[1])
      ]_vars

\* The vertex stored under identifier 1 is read back as it was inserted,
\* while the caller's value, still with identifier 1, has another name and
\* points.
C13_Witness ==
    /\ ret.op = "get_node"
    /\ ret.arg = 1
    /\ ret.val = Some([kind |-> "Epic", id |-> 1, name |-> "a", link |-> None,
                       timeline |-> "t1", points |-> None, owner |-> None,
                       participants |-> None])
    /\ vertex = Some([kind |-> "Epic", id |-> 1, name |-> "b", link |-> None,
                      timeline |-> "t1", points |-> Some(5), owner |-> None,
                      participants |-> None])
    /\ Len(graph.nodes) = 2

\* The variant each build_* method is asked for, the fields that variant
\* requires and the optional fields it carries.
BuildOps ==
    {"build_project", "build_spec", "build_epic", "build_userstory",
     "build_tasks"}

RequestedKind(op) ==
    CASE op = "build_project" -> "Project"
      [] op = "build_spec" -> "Spec"
      [] op = "build_epic" -> "Epic"
      [] op = "build_userstory" -> "UserStory"
      [] op = "build_tasks" -> "Tasks"

RequiredFields(kind) ==
    IF kind \in {"Project", "Spec"} THEN {"id", "name"}
    ELSE {"id", "name", "timeline"}

CarriedFields(kind) ==
    CASE kind = "Project" -> {"link", "timeline", "owner", "participants"}
      [] kind = "Spec" -> {"link", "owner"}
      [] kind = "Epic" -> {"link", "points", "owner", "participants"}
      [] kind \in {"UserStory", "Tasks"} -> {"link", "points", "owner"}

\* The vertex of the kind made of what the builder b was given: the required
\* fields bare, the carried ones as supplied or absent, and no other field.
VertexFrom(kind, b) ==
    [f \in {"kind"} \cup RequiredFields(kind) \cup CarriedFields(kind) |->
        IF f = "kind" THEN kind
        ELSE IF f \in RequiredFields(kind) THEN b[f][1]
        ELSE b[f]]

\* A build_* call returned Ok exactly when every required field of its
\* variant was supplied, then with the vertex of the supplied fields the
\* variant carries; otherwise with an error and no vertex.
BuildsWhenRequiredSupplied ==
    ret.op \in BuildOps =>
        LET kind == RequestedKind(ret.op)
        IN  /\ ret.val = Ok <=> \A f \in RequiredFields(kind) : ret.arg[f] # None
            /\ ret.val = Ok => vertex = Some(VertexFrom(kind, ret.arg))
            /\ ret.val # Ok => vertex = None

WithOps ==
    {"with_id", "with_name", "with_link", "with_timeline", "with_owner",
     "with_points", "with_participants"}

WithArgs(op) ==
    CASE op = "with_id" -> Ids
      [] op = "with_name" -> Names
      [] op = "with_link" -> Links
      [] op = "with_timeline" -> Timelines
      [] op = "with_owner" -> Owners
      [] op = "with_points" -> Points
      [] op = "with_participants" -> Participants

With(b, op, arg) ==
    CASE op = "with_id" -> with_id(b, arg)
      [] op = "with_name" -> with_name(b, arg)
      [] op = "with_link" -> with_link(b, arg)
      [] op = "with_timeline" -> with_timeline(b, arg)
      [] op = "with_owner" -> with_owner(b, arg)
      [] op = "with_points" -> with_points(b, arg)
      [] op = "with_participants" -> with_participants(b, arg)

Build(op, b) ==
    CASE op = "build_project" -> build_project(b)
      [] op = "build_spec" -> build_spec(b)
      [] op = "build_epic" -> build_epic(b)
      [] op = "build_userstory" -> build_userstory(b)
      [] op = "build_tasks" -> build_tasks(b)

\* C18 as stated: builds succeed exactly with the required fields, drop the
\* fields the variant does not carry, and any two with_* calls made in
\* either order give the same result of every build_* method.
C18_OrderNeverMatters ==
    /\ BuildsWhenRequiredSupplied
    /\ builder # None =>
           \A op1, op2 \in WithOps :
               \A arg1 \in WithArgs(op1), arg2 \in WithArgs(op2), build \in BuildOps :
                   Build(build, With(With(builder[1], op1, arg1), op2, arg2)) =
                       Build(build, With(With(builder[1], op2, arg2), op1, arg1))

\* C18, amended: builds succeed exactly with the required fields and drop the
\* fields the variant does not carry; two with_* calls of different methods
\* give the same builder in either order, and of two calls of the same
\* method the later one decides.
C18_Builder ==
    /\ BuildsWhenRequiredSupplied
    /\ builder # None =>
           \A op1, op2 \in WithOps :
               \A arg1 \in WithArgs(op1), arg2 \in WithArgs(op2) :
                   IF op1 # op2
                   THEN With(With(builder[1], op1, arg1), op2, arg2) =
                            With(With(builder[1], op2, arg2), op1, arg1)
                   ELSE With(With(builder[1], op1, arg1), op2, arg2) =
                            With(builder[1], op2, arg2)

\* build_spec made a vertex from a builder that had also been given a
\* timeline, points and participants, which a Spec does not carry.
C18_Witness ==
    /\ ret.op = "build_spec"
    /\ ret.val = Ok
    /\ ret.arg.timeline # None
    /\ ret.arg.points # None
    /\ ret.arg.participants # None
    /\ vertex # None
    /\ DOMAIN vertex[1] = {"kind", "id", "name", "link", "owner"}

====
